---- MODULE Spec2Model ----
(***************************************************************************)
(* TV Tracker: the shared catalogue (shows, episodes), the per-user        *)
(* overlay (user_shows, user_watched) and the request handlers of app.js   *)
(* that write them: POST /add, POST /show/:id/delete and                   *)
(* POST /episode/:id/toggle, and the pages that read them: GET / and       *)
(* GET /show/:id.  Every handler is cut at its awaits: one action per SQL  *)
(* statement or upstream call, so that the statements of concurrent        *)
(* requests interleave as they do on the single sqlite connection.         *)
(***************************************************************************)
EXTENDS Integers, Sequences, FiniteSets, TLC

\* ---------------------------------------------------------------- bounds
\* Requests accepted in one behaviour of Spec, whose requests overlap.
MaxRequests == 2
\* Requests accepted in one behaviour of SpecSeq, whose requests do not.
MaxSeqRequests == 4
\* The episodes of the longest show whose page is read.
MaxEpisodes == 40
\* The pages read on one library.
MaxReads == 1

\* Request slots: requests that can be in flight at the same time.
Procs == {1, 2}
\* Revisions of the upstream (TVMaze) catalogue: as first seen, and changed.
Revisions == {1, 2}
\* Logged-in users (req.session.user.id).
Users == {1, 2}
\* Show ids known to TVMaze.
ShowIds == {1, 2}
\* Episode ids a client can name in /episode/:id/toggle.
EpisodeIds == {11, 12, 21}

\* SQL NULL / JavaScript null.
NULL == -1
\* The value of datetime('now'): any non-null timestamp.
Now == 1

\* ------------------------------------------------------ request parsing
DigitVal(c) ==
  CASE c = "0" -> 0 [] c = "1" -> 1 [] c = "2" -> 2 [] c = "3" -> 3 [] c = "4" -> 4
    [] c = "5" -> 5 [] c = "6" -> 6 [] c = "7" -> 7 [] c = "8" -> 8 [] c = "9" -> 9

RECURSIVE ParseInt(_)
\* parseInt(s, 10) of a string of decimal digits.
ParseInt(s) ==
  IF s = <<>> THEN 0
  ELSE 10 * ParseInt(SubSeq(s, 1, Len(s) - 1)) + DigitVal(s[Len(s)])

RECURSIVE TrimLeft(_)
TrimLeft(s) == IF s # <<>> /\ Head(s) = " " THEN TrimLeft(Tail(s)) ELSE s

RECURSIVE TrimRight(_)
TrimRight(s) ==
  IF s # <<>> /\ s[Len(s)] = " " THEN TrimRight(SubSeq(s, 1, Len(s) - 1)) ELSE s

\* The query taken as typed, without the trim.
TrimNothing(s) == s

\* String.prototype.trim
Trim(s) == TrimRight(TrimLeft(s))

\* chosenId = req.body.showId ? parseInt(req.body.showId, 10) : null
ChosenId(showIdField) == IF showIdField = <<>> THEN NULL ELSE ParseInt(showIdField)

\* if (chosenId): null, 0 and NaN are falsy
Truthy(n) == n # NULL /\ n # 0

\* req.body.name as typed; strings are sequences of characters.
Queries == { <<>>, <<" ">>, <<"z">>, <<" ", "s">>, <<"w", " ">> }
\* req.body.showId as posted by the chooser form.
ShowIdFields == { <<>>, <<"0">>, <<"1">>, <<"2">> }
\* req.params.id of /show/:id/delete
ShowParams == { <<"1">>, <<"2">> }
\* req.params.id of /episode/:id/toggle
EpisodeParams == { <<"1", "1">>, <<"1", "2">>, <<"2", "1">> }

\* --------------------------------------------------------------- TVMaze
\* The show object of revision v; name stands for name, image and summary,
\* which all change with the revision.
TmShow(id, v) == [id |-> id, name |-> v]

\* Show 1 has two episodes, the second a special without a number;
\* show 2 has none in revision 1 and one afterwards; the shows from id 3
\* on are the long-running ones, show 3 + n with n episodes.
EpisodeCount(id, v) ==
  IF id = 1 THEN 2 ELSE IF id = 2 THEN (IF v = 1 THEN 0 ELSE 1) ELSE id - 3

\* Episode k of a show: seasons have ten episodes, the second episode of
\* a show is a special without a number and the thirteenth one without a
\* season.
TmEpisode(id, k, v) ==
  [id |-> IF id <= 2 THEN 10 * id + k ELSE 100 * id + k,
   season |-> IF k = 13 THEN NULL ELSE 1 + ((k - 1) \div 10),
   number |-> IF k = 2 THEN NULL ELSE 1 + ((k - 1) % 10),
   name |-> v]

\* GET /shows/:id/episodes
tmEpisodes(id, v) == [k \in 1..EpisodeCount(id, v) |-> TmEpisode(id, k, v)]

\* GET /search/shows?q=term : "z" matches nothing, "s" one show, "w" both.
tmSearchShows(term, v) ==
  IF term = <<"s">> THEN << [show |-> TmShow(1, v)] >>
  ELSE IF term = <<"w">> THEN << [show |-> TmShow(1, v)], [show |-> TmShow(2, v)] >>
  ELSE <<>>

\* ------------------------------------------------------------------ SQL
\* A row with the primary key of row is in the table.
Conflicts(table, newRow, pk) == \E r \in table : \A f \in pk : r[f] = newRow[f]

\* What run() of an INSERT gives: the table afterwards, and whether sqlite
\* rejected the statement (SQLITE_CONSTRAINT), which rejects the promise.

\* INSERT OR IGNORE written as a plain INSERT: a taken key is an error.
InsertOrIgnoreAsInsert(table, newRow, pk) ==
  [rows |-> IF Conflicts(table, newRow, pk) THEN table ELSE table \cup {newRow},
   err |-> Conflicts(table, newRow, pk)]

\* INSERT OR REPLACE INTO table: a row whose key is taken is overwritten.
InsertOrReplace(table, newRow, pk) ==
  [rows |-> { r \in table : \E f \in pk : r[f] # newRow[f] } \cup {newRow},
   err |-> FALSE]

\* INSERT OR IGNORE INTO table: a row whose key is taken is skipped.
InsertOrIgnore(table, newRow, pk) ==
  [rows |-> IF Conflicts(table, newRow, pk) THEN table ELSE table \cup {newRow},
   err |-> FALSE]

\* INSERT INTO table: a row whose key is taken is an error.
Insert(table, newRow, pk) ==
  [rows |-> IF Conflicts(table, newRow, pk) THEN table ELSE table \cup {newRow},
   err |-> Conflicts(table, newRow, pk)]

\* The row of INSERT ... INTO shows
ShowRow(showObj) == [id |-> showObj.id, name |-> showObj.name]

\* The insert with its first two bindings swapped: the show id bound to
\* id, the episode id to show_id.
EpisodeRowSwapped(ep, showId) ==
  [id |-> showId, show_id |-> ep.id, season |-> ep.season, number |-> ep.number,
   title |-> ep.name]

\* The row of INSERT ... INTO episodes
EpisodeRow(ep, showId) ==
  [id |-> ep.id, show_id |-> showId, season |-> ep.season, number |-> ep.number,
   title |-> ep.name]

\* The primary keys of CREATE TABLE: shows and episodes by their TVMaze id,
\* user_shows and user_watched (the per-user db.js) by user and show or
\* episode.  The FOREIGN KEY clauses are not enforced: the connection never
\* sets PRAGMA foreign_keys.
ShowPK == {"id"}
EpisodePK == {"id"}
\* The key of the single-user schema: one row per show, whoever added it.
UserShowPKOfShowOnly == {"show_id"}

UserShowPK == {"user_id", "show_id"}
UserWatchedPK == {"user_id", "episode_id"}

\* SELECT id FROM episodes WHERE show_id = ?
EpisodesOf(eps, showId) == { e.id : e \in { r \in eps : r.show_id = showId } }

\* The DELETE without its user_id = ? condition.
DeleteWatchedOfAllUsers(uw, eps, u, showId) ==
  { r \in uw : r.episode_id \notin EpisodesOf(eps, showId) }

\* DELETE FROM user_watched WHERE user_id = ? AND episode_id IN (...)
DeleteWatched(uw, eps, u, showId) ==
  { r \in uw : ~(r.user_id = u /\ r.episode_id \in EpisodesOf(eps, showId)) }

\* DELETE FROM user_shows WHERE user_id = ? AND show_id = ?
DeleteLink(us, u, showId) == { r \in us : ~(r.user_id = u /\ r.show_id = showId) }

\* SELECT watched_at FROM user_watched WHERE user_id = ? AND episode_id = ?
\* db.get gives the first matching row, or undefined.
SelectWatched(uw, u, epId) ==
  LET m == { r \in uw : r.user_id = u /\ r.episode_id = epId }
  IN  IF m = {} THEN [found |-> FALSE, watched_at |-> NULL]
      ELSE [found |-> TRUE, watched_at |-> (CHOOSE r \in m : TRUE).watched_at]

\* The UPDATE without its user_id = ? condition.
UpdateWatchedOfAllUsers(uw, u, epId, ts) ==
  { IF r.episode_id = epId THEN [r EXCEPT !.watched_at = ts] ELSE r : r \in uw }

\* The UPDATE that sets datetime('now') in both branches of the toggle.
UpdateWatchedAlwaysNow(uw, u, epId, ts) ==
  { IF r.user_id = u /\ r.episode_id = epId
      THEN [r EXCEPT !.watched_at = Now] ELSE r : r \in uw }

\* UPDATE user_watched SET watched_at = ? WHERE user_id = ? AND episode_id = ?
UpdateWatched(uw, u, epId, ts) ==
  { IF r.user_id = u /\ r.episode_id = epId
      THEN [r EXCEPT !.watched_at = ts] ELSE r : r \in uw }

\* ------------------------------------------------- IEEE 754 binary64
\* Math.round((watched / total) * 100) works on doubles: the quotient and
\* the product are each rounded to 53 significant bits, ties to even.  The
\* significands are beyond the integers of the checker, so a big natural
\* is a sequence of digits in base 2^15, most significant first, without
\* leading zeros; a double is its significand with the exponent of its
\* last bit, and zero has the empty significand.
Precision == 53
LimbBits == 15
Limb == 2 ^ LimbBits

Zero == [m |-> <<>>, exp |-> 0]

RECURSIVE Normal(_)
\* The digits without leading zeros.
Normal(x) == IF x # <<>> /\ Head(x) = 0 THEN Normal(Tail(x)) ELSE x

RECURSIVE ToInt(_)
\* The value of a few digits.
ToInt(x) == IF x = <<>> THEN 0 ELSE Limb * ToInt(SubSeq(x, 1, Len(x) - 1)) + x[Len(x)]

RECURSIVE BitLength(_)
BitLength(n) == IF n = 0 THEN 0 ELSE 1 + BitLength(n \div 2)

\* The number of bits of a big natural.
Bits(x) == IF x = <<>> THEN 0 ELSE LimbBits * (Len(x) - 1) + BitLength(Head(x))

IsOdd(x) == x # <<>> /\ x[Len(x)] % 2 = 1

RECURSIVE DivSmall(_, _, _)
\* Long division of the digits x by d < 2^15, r the remainder carried in.
DivSmall(x, d, r) ==
  IF x = <<>> THEN [quot |-> <<>>, rem |-> r]
  ELSE LET cur == r * Limb + Head(x)
           rest == DivSmall(Tail(x), d, cur % d)
       IN  [quot |-> <<cur \div d>> \o rest.quot, rem |-> rest.rem]

RECURSIVE MulSmall(_, _, _)
\* x * n + carry for n < 2^15.
MulSmall(x, n, carry) ==
  IF x = <<>> THEN (IF carry = 0 THEN <<>> ELSE <<carry>>)
  ELSE LET cur == x[Len(x)] * n + carry
       IN  MulSmall(SubSeq(x, 1, Len(x) - 1), n, cur \div Limb) \o <<cur % Limb>>

RECURSIVE AddSmall(_, _)
\* x + a for a < 2^15.
AddSmall(x, a) ==
  IF a = 0 THEN x
  ELSE IF x = <<>> THEN <<a>>
  ELSE LET cur == x[Len(x)] + a
       IN  AddSmall(SubSeq(x, 1, Len(x) - 1), cur \div Limb) \o <<cur % Limb>>

\* x shifted right by c bits, and whether a 1 was shifted out.
ShiftRight(x, c) ==
  LET drop == c \div LimbBits
  IN  IF drop >= Len(x) THEN [quot |-> <<>>, inexact |-> x # <<>>]
      ELSE LET d == DivSmall(SubSeq(x, 1, Len(x) - drop), 2 ^ (c % LimbBits), 0)
           IN  [quot |-> Normal(d.quot),
                inexact |-> d.rem # 0
                              \/ \E i \in Len(x) - drop + 1..Len(x) : x[i] # 0]

\* x / 2^c rounded to the nearest natural, ties to even, for c >= 1; the
\* exact value lies above x when inexact.
RoundShift(x, c, inexact) ==
  LET y == ShiftRight(x, c - 1)
      h == ShiftRight(y.quot, 1)
      up == h.inexact /\ (y.inexact \/ inexact \/ IsOdd(h.quot))
  IN  IF up THEN AddSmall(h.quot, 1) ELSE h.quot

\* The double nearest to x * 2^exp, for x of 53 bits or more.
ToDouble(x, exp, inexact) ==
  LET c == Bits(x) - Precision
      m == IF c = 0 THEN x ELSE RoundShift(x, c, inexact)
  IN  IF Bits(m) > Precision
        THEN [m |-> ShiftRight(m, 1).quot, exp |-> exp + c + 1]
        ELSE [m |-> m, exp |-> exp + c]

\* n / d in doubles, for naturals n, d < 2^15 and d > 0: the quotient of
\* n * 2^75 by d has 60 bits or more and is rounded with its remainder.
Divide(n, d) ==
  IF n = 0 THEN Zero
  ELSE LET q == DivSmall(<<n, 0, 0, 0, 0, 0>>, d, 0)
       IN  ToDouble(Normal(q.quot), 0 - 5 * LimbBits, q.rem # 0)

\* x * n in doubles, for a double x and a natural 0 < n < 2^15.
Multiply(x, n) ==
  IF x.m = <<>> THEN Zero ELSE ToDouble(MulSmall(x.m, n, 0), x.exp, FALSE)

\* Math.round of a double 0 <= x < 2^30 with bits after the point: the
\* floor of x + 1/2, which is (floor(2x) + 1) div 2.
MathRound(x) ==
  IF x.m = <<>> THEN 0
  ELSE (ToInt(ShiftRight(x.m, 0 - x.exp - 1).quot) + 1) \div 2

\* const pct = total ? Math.round((watched / total) * 100) : 0
Percent(watched, total) ==
  IF total = 0 THEN 0 ELSE MathRound(Multiply(Divide(watched, total), 100))

\* ---------------------------------------------------------------- state
VARIABLES
  shows, episodes, user_shows, user_watched,  \* the tables of the database
  tvmaze,      \* the revision the upstream catalogue is at
  pc,          \* where each request slot stands in its handler
  kind,        \* the route of the request in the slot
  uid,         \* req.session.user.id
  name,        \* POST /add: the trimmed query
  show,        \* POST /add: the show object being added
  epList,      \* addShowToUserLibrary: const episodes
  idx,         \* addShowToUserLibrary: position of the for loop in episodes
  results,     \* POST /add: number of search results
  target,      \* showId of /show/:id/delete, epId of /episode/:id/toggle
  row,         \* toggle: the row read by the SELECT
  response,    \* what the request answered
  changes,     \* rows the statements of this request changed (this.changes)
  nreq,        \* requests accepted so far
  streak,      \* the run of consecutive toggles of one (user, episode)
  view         \* GET / and GET /show/:id: the locals given to res.render

tables == <<shows, episodes, user_shows, user_watched>>
locals == <<kind, uid, name, show, epList, idx, results, target, row, response, changes,
            view>>
vars == <<shows, episodes, user_shows, user_watched, tvmaze, pc, kind, uid, name,
          show, epList, idx, results, target, row, response, changes, nreq, streak,
          view>>

NoShow == [id |-> NULL, name |-> NULL]
NoRow == [found |-> FALSE, watched_at |-> NULL]
NoStreak == [user_id |-> NULL, episode_id |-> NULL, n |-> 0, from |-> FALSE,
             last |-> FALSE]
NoView == [shows |-> <<>>, show |-> NoShow, episodes |-> <<>>, total |-> NULL,
           watched |-> NULL, pct |-> NULL]

\* The database as init() creates it: every table empty.
EmptyTables ==
  shows = {} /\ episodes = {} /\ user_shows = {} /\ user_watched = {}

\* The server at rest: no request in flight, TVMaze at its first revision.
AtRest ==
  /\ tvmaze = 1
  /\ pc = [p \in Procs |-> "idle"]
  /\ kind = [p \in Procs |-> "none"]
  /\ uid = [p \in Procs |-> NULL]
  /\ name = [p \in Procs |-> <<>>]
  /\ show = [p \in Procs |-> NoShow]
  /\ epList = [p \in Procs |-> <<>>]
  /\ idx = [p \in Procs |-> 0]
  /\ results = [p \in Procs |-> NULL]
  /\ target = [p \in Procs |-> NULL]
  /\ row = [p \in Procs |-> NoRow]
  /\ response = [p \in Procs |-> "none"]
  /\ changes = [p \in Procs |-> 0]
  /\ nreq = 0
  /\ streak = NoStreak
  /\ view = [p \in Procs |-> NoView]

Init == EmptyTables /\ AtRest

\* The user's watched state of an episode: a row with a non-null timestamp.
Watched(uw, u, e) ==
  \E r \in uw : r.user_id = u /\ r.episode_id = e /\ r.watched_at # NULL

\* The row the toggle inserts on a first toggle.
WatchRow(u, e) == [user_id |-> u, episode_id |-> e, watched_at |-> Now]

\* The link made for a fixed account instead of the session's user.
LinkRowOfFirstUser(u, s) == [user_id |-> 1, show_id |-> s, added_at |-> Now]

\* The row that links a show to a user.
LinkRow(u, s) == [user_id |-> u, show_id |-> s, added_at |-> Now]

\* The request in slot p has answered and the slot is free again.
Finish(p, answer) ==
  /\ pc' = [pc EXCEPT ![p] = "done"]
  /\ response' = [response EXCEPT ![p] = answer]

\* ------------------------------------------- POST /episode/:id/toggle
ToggleRequest(p) ==
  /\ pc[p] = "idle"
  /\ \E u \in Users, id \in EpisodeParams :
       /\ kind' = [kind EXCEPT ![p] = "toggle"]
       /\ uid' = [uid EXCEPT ![p] = u]
       /\ target' = [target EXCEPT ![p] = ParseInt(id)]
  /\ pc' = [pc EXCEPT ![p] = "toggle_select"]
  /\ nreq' = nreq + 1
  /\ UNCHANGED <<tables, tvmaze, name, show, epList, idx, results, row, response,
                 changes, streak, view>>

ToggleSelect(p) ==
  /\ pc[p] = "toggle_select"
  /\ row' = [row EXCEPT ![p] = SelectWatched(user_watched, uid[p], target[p])]
  /\ pc' = [pc EXCEPT ![p] = "toggle_write"]
  /\ UNCHANGED <<tables, tvmaze, kind, uid, name, show, epList, idx, results, target,
                 response, changes, nreq, streak, view>>

\* Rows an UPDATE ... WHERE user_id = ? AND episode_id = ? changes.
Matched(uw, u, e) == Cardinality({ r \in uw : r.user_id = u /\ r.episode_id = e })

\* The run of toggles of (u, e) after one more toggle that answered.
\* from is the watched state the run started in, last the answer of its
\* latest toggle.
NextStreak(s, u, e, before, answer) ==
  IF s.user_id = u /\ s.episode_id = e
    THEN [s EXCEPT !.n = s.n + 1, !.last = answer]
    ELSE [user_id |-> u, episode_id |-> e, n |-> 1, from |-> before, last |-> answer]

ToggleWrite(p) ==
  /\ pc[p] = "toggle_write"
  /\ LET u == uid[p]
         e == target[p]
         before == Watched(user_watched, u, e)
         ins == Insert(user_watched, WatchRow(u, e), UserWatchedPK)
     IN  IF ~row[p].found
           THEN IF ins.err
                  THEN /\ Finish(p, "unhandled:SQLITE_CONSTRAINT")
                       /\ UNCHANGED <<user_watched, changes, streak>>
                  ELSE /\ user_watched' = ins.rows
                       /\ changes' = [changes EXCEPT ![p] = @ + 1]
                       /\ Finish(p, "watched:true")
                       /\ streak' = NextStreak(streak, u, e, before, TRUE)
           ELSE IF row[p].watched_at # NULL
                  THEN /\ user_watched' = UpdateWatched(user_watched, u, e, NULL)
                       /\ changes' = [changes EXCEPT ![p] = @ + Matched(user_watched, u, e)]
                       /\ Finish(p, "watched:false")
                       /\ streak' = NextStreak(streak, u, e, before, FALSE)
                  ELSE /\ user_watched' = UpdateWatched(user_watched, u, e, Now)
                       /\ changes' = [changes EXCEPT ![p] = @ + Matched(user_watched, u, e)]
                       /\ Finish(p, "watched:true")
                       /\ streak' = NextStreak(streak, u, e, before, TRUE)
  /\ UNCHANGED <<shows, episodes, user_shows, tvmaze, kind, uid, name, show, epList,
                 idx, results, target, row, nreq, view>>

\* --------------------------------------------- POST /show/:id/delete
RemoveRequest(p) ==
  /\ pc[p] = "idle"
  /\ \E u \in Users, id \in ShowParams :
       /\ kind' = [kind EXCEPT ![p] = "remove"]
       /\ uid' = [uid EXCEPT ![p] = u]
       /\ target' = [target EXCEPT ![p] = ParseInt(id)]
  /\ pc' = [pc EXCEPT ![p] = "delete_watched"]
  /\ nreq' = nreq + 1
  /\ UNCHANGED <<tables, tvmaze, name, show, epList, idx, results, row, response,
                 changes, streak, view>>

RemoveDeleteWatched(p) ==
  /\ pc[p] = "delete_watched"
  /\ user_watched' = DeleteWatched(user_watched, episodes, uid[p], target[p])
  /\ changes' = [changes EXCEPT ![p] =
                   @ + Cardinality(user_watched) - Cardinality(user_watched')]
  /\ pc' = [pc EXCEPT ![p] = "delete_link"]
  /\ streak' = NoStreak
  /\ UNCHANGED <<shows, episodes, user_shows, tvmaze, kind, uid, name, show, epList,
                 idx, results, target, row, response, nreq, view>>

RemoveDeleteLink(p) ==
  /\ pc[p] = "delete_link"
  /\ user_shows' = DeleteLink(user_shows, uid[p], target[p])
  /\ changes' = [changes EXCEPT ![p] =
                   @ + Cardinality(user_shows) - Cardinality(user_shows')]
  /\ Finish(p, "redirect:/")
  /\ UNCHANGED <<shows, episodes, user_watched, tvmaze, kind, uid, name, show, epList,
                 idx, results, target, row, nreq, streak, view>>

\* ---------------------------------------------------------- POST /add
\* The handler up to its first await.  name is read only on the search
\* path, so it is kept empty when a show id was chosen.
AddRequest(p) ==
  /\ pc[p] = "idle"
  /\ \E u \in Users, q \in Queries, f \in ShowIdFields :
       LET chosenId == ChosenId(f)
           nm == Trim(q)
       IN  /\ kind' = [kind EXCEPT ![p] = "add"]
           /\ uid' = [uid EXCEPT ![p] = u]
           /\ IF Truthy(chosenId)
                THEN /\ target' = [target EXCEPT ![p] = chosenId]
                     /\ pc' = [pc EXCEPT ![p] = "tmGetShow"]
                     /\ UNCHANGED <<name, response>>
                ELSE /\ name' = [name EXCEPT ![p] = nm]
                     /\ UNCHANGED target
                     /\ IF nm = <<>>
                          THEN Finish(p, "400")
                          ELSE /\ pc' = [pc EXCEPT ![p] = "tmSearchShows"]
                               /\ UNCHANGED response
  /\ nreq' = nreq + 1
  /\ UNCHANGED <<tables, tvmaze, show, epList, idx, results, row, changes, streak,
                 view>>

\* const show = await tmGetShow(chosenId)
AddGetShow(p) ==
  /\ pc[p] = "tmGetShow"
  /\ show' = [show EXCEPT ![p] = TmShow(target[p], tvmaze)]
  /\ pc' = [pc EXCEPT ![p] = "insert_show"]
  /\ UNCHANGED <<tables, tvmaze, kind, uid, name, epList, idx, results, target, row,
                 response, changes, nreq, streak, view>>

\* POST /add taking the first hit, as singlesearch did.
SearchOutcomeFirstHit(n) == IF n = 0 THEN "404" ELSE "add"

\* What POST /add does with n search results.
SearchOutcome(n) == IF n = 0 THEN "404" ELSE IF n > 1 THEN "choose" ELSE "add"

\* const results = await tmSearchShows(name), and the three outcomes
AddSearch(p) ==
  /\ pc[p] = "tmSearchShows"
  /\ LET found == tmSearchShows(name[p], tvmaze)
     IN  /\ results' = [results EXCEPT ![p] = Len(found)]
         /\ IF SearchOutcome(Len(found)) = "add"
              THEN /\ show' = [show EXCEPT ![p] = found[1].show]
                   /\ pc' = [pc EXCEPT ![p] = "insert_show"]
                   /\ UNCHANGED response
              ELSE /\ Finish(p, SearchOutcome(Len(found)))
                   /\ UNCHANGED show
  /\ UNCHANGED <<tables, tvmaze, kind, uid, name, epList, idx, target, row, changes,
                 nreq, streak, view>>

\* An upstream call times out or answers with an error: axios throws and
\* the catch of POST /add answers 500.
UpstreamFails(p) ==
  /\ pc[p] \in {"tmGetShow", "tmSearchShows", "tmEpisodes"}
  /\ Finish(p, "500:upstream")
  /\ UNCHANGED <<tables, tvmaze, kind, uid, name, show, epList, idx, results, target,
                 row, changes, nreq, streak, view>>

\* A statement of addShowToUserLibrary was rejected: the catch of POST /add
\* answers 500.
AddFails(p) == Finish(p, "500:SQLITE_CONSTRAINT")

\* addShowToUserLibrary: INSERT OR IGNORE INTO shows
AddInsertShow(p) ==
  /\ pc[p] = "insert_show"
  /\ LET ins == InsertOrIgnore(shows, ShowRow(show[p]), ShowPK)
     IN  IF ins.err
           THEN AddFails(p) /\ UNCHANGED <<shows, changes>>
           ELSE /\ shows' = ins.rows
                /\ changes' = [changes EXCEPT ![p] =
                                 @ + Cardinality(ins.rows) - Cardinality(shows)]
                /\ pc' = [pc EXCEPT ![p] = "tmEpisodes"]
                /\ UNCHANGED response
  /\ UNCHANGED <<episodes, user_shows, user_watched, tvmaze, kind, uid, name, show,
                 epList, idx, results, target, row, nreq, streak, view>>

\* The episode list fetched and the inserts of the loop not awaited: the
\* link is made next.
AddGetEpisodesLoopNotAwaited(p) ==
  /\ pc[p] = "tmEpisodes"
  /\ epList' = [epList EXCEPT ![p] = tmEpisodes(show[p].id, tvmaze)]
  /\ idx' = [idx EXCEPT ![p] = 1]
  /\ pc' = [pc EXCEPT ![p] = "insert_link"]
  /\ UNCHANGED <<tables, tvmaze, kind, uid, name, show, results, target, row,
                 response, changes, nreq, streak, view>>

\* const episodes = await tmEpisodes(showObj.id)
AddGetEpisodes(p) ==
  /\ pc[p] = "tmEpisodes"
  /\ LET fetched == tmEpisodes(show[p].id, tvmaze)
     IN  /\ epList' = [epList EXCEPT ![p] = fetched]
         /\ idx' = [idx EXCEPT ![p] = 1]
         /\ pc' = [pc EXCEPT ![p] =
                     IF Len(fetched) = 0 THEN "insert_link" ELSE "insert_episode"]
  /\ UNCHANGED <<tables, tvmaze, kind, uid, name, show, results, target, row,
                 response, changes, nreq, streak, view>>

\* for (const ep of episodes) await run(insertEp, ...): one iteration
AddInsertEpisode(p) ==
  /\ pc[p] = "insert_episode"
  /\ LET ins == InsertOrIgnore(episodes, EpisodeRow(epList[p][idx[p]], show[p].id),
                                EpisodePK)
     IN  IF ins.err
           THEN AddFails(p) /\ UNCHANGED <<episodes, changes, idx>>
           ELSE /\ episodes' = ins.rows
                /\ changes' = [changes EXCEPT ![p] =
                                 @ + Cardinality(ins.rows) - Cardinality(episodes)]
                /\ idx' = [idx EXCEPT ![p] = @ + 1]
                /\ pc' = [pc EXCEPT ![p] =
                            IF idx[p] = Len(epList[p]) THEN "insert_link"
                            ELSE "insert_episode"]
                /\ UNCHANGED response
  /\ UNCHANGED <<shows, user_shows, user_watched, tvmaze, kind, uid, name, show,
                 epList, results, target, row, nreq, streak, view>>

\* The link written as INSERT OR REPLACE with the user's marks on the show
\* cleared along with the replaced link.
AddInsertLinkResetsMarks(p) ==
  /\ pc[p] = "insert_link"
  /\ user_shows' = user_shows \cup {LinkRow(uid[p], show[p].id)}
  /\ user_watched' = DeleteWatched(user_watched, episodes, uid[p], show[p].id)
  /\ changes' = [changes EXCEPT ![p] = @ + 1]
  /\ Finish(p, "redirect:/show")
  /\ UNCHANGED <<shows, episodes, tvmaze, kind, uid, name, show, epList, idx, results,
                 target, row, nreq, streak, view>>

\* INSERT OR IGNORE INTO user_shows, then res.redirect(`/show/${show.id}`)
AddInsertLink(p) ==
  /\ pc[p] = "insert_link"
  /\ LET ins == InsertOrIgnore(user_shows, LinkRow(uid[p], show[p].id), UserShowPK)
     IN  IF ins.err
           THEN AddFails(p) /\ UNCHANGED <<user_shows, changes>>
           ELSE /\ user_shows' = ins.rows
                /\ changes' = [changes EXCEPT ![p] =
                                 @ + Cardinality(ins.rows) - Cardinality(user_shows)]
                /\ Finish(p, "redirect:/show")
  /\ UNCHANGED <<shows, episodes, user_watched, tvmaze, kind, uid, name, show, epList,
                 idx, results, target, row, nreq, streak, view>>

\* ------------------------------------------------------ GET /show/:id
RECURSIVE Decimal(_)
\* The id as the pages write it into their links: its decimal digits.
Decimal(n) ==
  LET digit == CHOOSE c \in {"0", "1", "2", "3", "4", "5", "6", "7", "8", "9"} :
                 DigitVal(c) = n % 10
  IN  IF n < 10 THEN <<digit>> ELSE Decimal(n \div 10) \o <<digit>>

\* req.params.id of GET /show/:id : the shows of the catalogue, and shows
\* 1 and 2 whether stored or not.
DetailParams == { Decimal(n) : n \in {1, 2} \cup { s.id : s \in shows } }

\* The ownership check without its user_id = ? condition.
SelectOwnsOfAnyUser(us, u, showId) == \E l \in us : l.show_id = showId

\* SELECT 1 FROM user_shows WHERE user_id = ? AND show_id = ?
SelectOwns(us, u, showId) == \E l \in us : l.user_id = u /\ l.show_id = showId

\* SELECT * FROM shows WHERE id = ? : the row, or undefined
SelectShow(sh, showId) ==
  LET m == { r \in sh : r.id = showId }
  IN  IF m = {} THEN NoShow ELSE CHOOSE r \in m : TRUE

\* ORDER BY e.season NULLS LAST, e.number NULLS LAST
EpisodeBeforeNullsLast(a, b) ==
  LET below(x, y) == x # NULL /\ (y = NULL \/ x < y)
  IN  \/ below(a.season, b.season)
      \/ a.season = b.season /\ below(a.number, b.number)
      \/ a.season = b.season /\ a.number = b.number /\ a.id < b.id

\* ORDER BY e.season, e.number: sqlite puts NULL before every number, as
\* NULL is below the numbers here; rows that tie come in rowid order.
EpisodeBefore(a, b) ==
  \/ a.season < b.season
  \/ a.season = b.season /\ a.number < b.number
  \/ a.season = b.season /\ a.number = b.number /\ a.id < b.id

\* The rows in the order of ORDER BY: every row stands after the rows
\* that come before it.
\* The ordered rows with one more row put in its place.
InsertEpisode(seq, a) ==
  LET k == Cardinality({ i \in 1..Len(seq) : EpisodeBefore(seq[i], a) })
  IN  SubSeq(seq, 1, k) \o <<a>> \o SubSeq(seq, k + 1, Len(seq))

RECURSIVE OrderEpisodes(_)
OrderEpisodes(rows) ==
  IF rows = {} THEN <<>>
  ELSE LET a == CHOOSE x \in rows : TRUE
       IN  InsertEpisode(OrderEpisodes(rows \ {a}), a)

\* SELECT e.*, (uw.watched_at IS NOT NULL) AS watched FROM episodes e
\* LEFT JOIN user_watched uw ON uw.episode_id = e.id AND uw.user_id = ?
\* WHERE e.show_id = ? ORDER BY e.season, e.number
SelectEpisodes(eps, uw, u, showId) ==
  LET ordered == OrderEpisodes({ r \in eps : r.show_id = showId })
  IN  [i \in 1..Len(ordered) |->
         [id |-> ordered[i].id, show_id |-> ordered[i].show_id,
          season |-> ordered[i].season, number |-> ordered[i].number,
          title |-> ordered[i].title, watched |-> Watched(uw, u, ordered[i].id)]]

GetShowRequest(p) ==
  /\ pc[p] = "idle"
  /\ \E u \in Users, id \in DetailParams :
       /\ kind' = [kind EXCEPT ![p] = "detail"]
       /\ uid' = [uid EXCEPT ![p] = u]
       /\ target' = [target EXCEPT ![p] = ParseInt(id)]
  /\ pc' = [pc EXCEPT ![p] = "select_owns"]
  /\ nreq' = nreq + 1
  /\ UNCHANGED <<tables, tvmaze, name, show, epList, idx, results, row, response,
                 changes, streak, view>>

\* const owns = await get(...); if (!owns) return res.status(403)
GetShowOwns(p) ==
  /\ pc[p] = "select_owns"
  /\ IF SelectOwns(user_shows, uid[p], target[p])
       THEN pc' = [pc EXCEPT ![p] = "select_show"] /\ UNCHANGED response
       ELSE Finish(p, "403")
  /\ UNCHANGED <<tables, tvmaze, kind, uid, name, show, epList, idx, results, target,
                 row, changes, nreq, streak, view>>

\* const show = await get(...); if (!show) return res.status(404)
GetShowSelect(p) ==
  /\ pc[p] = "select_show"
  /\ LET found == SelectShow(shows, target[p])
     IN  IF found = NoShow
           THEN Finish(p, "404") /\ UNCHANGED view
           ELSE /\ view' = [view EXCEPT ![p].show = found]
                /\ pc' = [pc EXCEPT ![p] = "select_episodes"]
                /\ UNCHANGED response
  /\ UNCHANGED <<tables, tvmaze, kind, uid, name, show, epList, idx, results, target,
                 row, changes, nreq, streak>>

\* const episodes = await all(...); total, watched, pct; res.render('show')
GetShowEpisodes(p) ==
  /\ pc[p] = "select_episodes"
  \* the locals of the handler, each computed once
  /\ \E rows \in { SelectEpisodes(episodes, user_watched, uid[p], target[p]) } :
       \E total \in { Len(rows) } :
         \E watched \in { Cardinality({ i \in 1..Len(rows) : rows[i].watched }) } :
           view' = [view EXCEPT ![p].episodes = rows, ![p].total = total,
                                ![p].watched = watched,
                                ![p].pct = Percent(watched, total)]
  /\ Finish(p, "200:show")
  /\ UNCHANGED <<tables, tvmaze, kind, uid, name, show, epList, idx, results, target,
                 row, changes, nreq, streak>>

\* ------------------------------------------------------------- GET /
\* ORDER BY s.name; rows that tie come in rowid order.
ShowBefore(a, b) == a.name < b.name \/ (a.name = b.name /\ a.id < b.id)

OrderShows(rows) ==
  LET before == [a \in rows |-> Cardinality({ b \in rows : ShowBefore(b, a) })]
  IN  [i \in 1..Cardinality(rows) |-> CHOOSE a \in rows : before[a] = i - 1]

\* The library query without the uw.user_id = ? condition of watched_eps.
SelectLibraryOfAllMarks(sh, eps, us, uw, u) ==
  OrderShows({ [id |-> s.id, name |-> s.name,
                total_eps |-> Cardinality({ e \in eps : e.show_id = s.id }),
                watched_eps |->
                  Cardinality({ e \in eps :
                                  /\ e.show_id = s.id
                                  /\ \E v \in Users : Watched(uw, v, e.id) })] :
               s \in { r \in sh : \E l \in us : l.show_id = r.id /\ l.user_id = u } })

\* SELECT s.id, s.name, s.image, (SELECT COUNT(*) ...) AS total_eps,
\* (SELECT COUNT(*) ... WHERE ... uw.watched_at IS NOT NULL) AS watched_eps
\* FROM shows s JOIN user_shows us ON us.show_id = s.id
\* WHERE us.user_id = ? ORDER BY s.name
SelectLibrary(sh, eps, us, uw, u) ==
  OrderShows({ [id |-> s.id, name |-> s.name,
                total_eps |-> Cardinality({ e \in eps : e.show_id = s.id }),
                watched_eps |-> Cardinality({ e \in eps : /\ e.show_id = s.id
                                                          /\ Watched(uw, u, e.id) })] :
               s \in { r \in sh : \E l \in us : l.show_id = r.id /\ l.user_id = u } })

GetHomeRequest(p) ==
  /\ pc[p] = "idle"
  /\ \E u \in Users :
       /\ kind' = [kind EXCEPT ![p] = "home"]
       /\ uid' = [uid EXCEPT ![p] = u]
  /\ pc' = [pc EXCEPT ![p] = "select_library"]
  /\ nreq' = nreq + 1
  /\ UNCHANGED <<tables, tvmaze, name, show, epList, idx, results, target, row,
                 response, changes, streak, view>>

\* const shows = await all(...); res.render('index')
GetHomeSelect(p) ==
  /\ pc[p] = "select_library"
  /\ view' = [view EXCEPT ![p].shows =
                SelectLibrary(shows, episodes, user_shows, user_watched, uid[p])]
  /\ Finish(p, "200:index")
  /\ UNCHANGED <<tables, tvmaze, kind, uid, name, show, epList, idx, results, target,
                 row, changes, nreq, streak>>

\* ---------------------------------------------------------- environment
\* The response is out and the slot takes the next request.
Respond(p) ==
  /\ pc[p] = "done"
  /\ pc' = [pc EXCEPT ![p] = "idle"]
  /\ kind' = [kind EXCEPT ![p] = "none"]
  /\ uid' = [uid EXCEPT ![p] = NULL]
  /\ name' = [name EXCEPT ![p] = <<>>]
  /\ show' = [show EXCEPT ![p] = NoShow]
  /\ epList' = [epList EXCEPT ![p] = <<>>]
  /\ idx' = [idx EXCEPT ![p] = 0]
  /\ results' = [results EXCEPT ![p] = NULL]
  /\ target' = [target EXCEPT ![p] = NULL]
  /\ row' = [row EXCEPT ![p] = NoRow]
  /\ response' = [response EXCEPT ![p] = "none"]
  /\ changes' = [changes EXCEPT ![p] = 0]
  /\ view' = [view EXCEPT ![p] = NoView]
  /\ UNCHANGED <<tables, tvmaze, nreq, streak>>

\* TVMaze publishes a new revision of its catalogue.
TvmazeUpdate ==
  /\ tvmaze + 1 \in Revisions
  /\ tvmaze' = tvmaze + 1
  /\ UNCHANGED <<tables, pc, locals, nreq, streak>>

\* The library after user 1 and user 2 have each added show 1 and ticked
\* its first episode, four requests after Init.
LibraryOfTwo ==
  /\ shows = { ShowRow(TmShow(1, 1)) }
  /\ episodes = { EpisodeRow(TmEpisode(1, k, 1), 1) : k \in 1..2 }
  /\ user_shows = { LinkRow(u, 1) : u \in Users }
  /\ user_watched = { WatchRow(u, 11) : u \in Users }

\* Overlapping requests start on a fresh database or on LibraryOfTwo.
InitOverlap == (EmptyTables \/ LibraryOfTwo) /\ AtRest

Next ==
  \/ \E p \in Procs :
       \/ (nreq < MaxRequests /\ ToggleRequest(p)) \/ ToggleSelect(p) \/ ToggleWrite(p)
       \/ (nreq < MaxRequests /\ RemoveRequest(p)) \/ RemoveDeleteWatched(p)
       \/ RemoveDeleteLink(p)
       \/ (nreq < MaxRequests /\ AddRequest(p)) \/ AddGetShow(p) \/ AddSearch(p)
       \/ UpstreamFails(p) \/ AddInsertShow(p) \/ AddGetEpisodes(p)
       \/ AddInsertEpisode(p) \/ AddInsertLink(p) \/ Respond(p)
  \/ TvmazeUpdate

Spec == InitOverlap /\ [][Next]_vars

\* The request in slot p is accepted when nothing else is in flight; one
\* slot serves all of them.
Alone(p) == nreq < MaxSeqRequests /\ \A q \in Procs : pc[q] = "idle" /\ q >= p

\* The same handlers with the requests served one after the other.
NextSeq ==
  \/ \E p \in Procs :
       \/ (Alone(p) /\ ToggleRequest(p)) \/ ToggleSelect(p) \/ ToggleWrite(p)
       \/ (Alone(p) /\ RemoveRequest(p)) \/ RemoveDeleteWatched(p)
       \/ RemoveDeleteLink(p)
       \/ (Alone(p) /\ AddRequest(p)) \/ AddGetShow(p) \/ AddSearch(p)
       \/ UpstreamFails(p) \/ AddInsertShow(p) \/ AddGetEpisodes(p)
       \/ AddInsertEpisode(p) \/ AddInsertLink(p) \/ Respond(p)
  \/ TvmazeUpdate

SpecSeq == Init /\ [][NextSeq]_vars

\* SpecSeq reaches the library Spec may start on.
LibraryOfTwoNotReached == ~(LibraryOfTwo /\ tvmaze = 1 /\ \A p \in Procs : pc[p] = "idle")

\* --------------------------------------------------------- the pages
\* What user 2 has done with the long-running show of user 1: nothing,
\* added it and ticked every episode, or ticked every episode without
\* adding it (the toggle asks for no link).
Others == {"absent", "linked", "marks"}

\* The library after user 1 has added the show of t episodes, ticked its
\* first w episodes and ticked and unticked the next one; with user 2
\* linked, user 2 has added show 1 as well and ticked its first episode.
LibraryOfLength(t, w, other) ==
  LET s == 3 + t
      ep(k) == TmEpisode(s, k, 1).id
  IN  /\ shows = { ShowRow(TmShow(s, 1)) }
                   \cup (IF other = "linked" THEN { ShowRow(TmShow(1, 1)) } ELSE {})
      /\ episodes = { EpisodeRow(TmEpisode(s, k, 1), s) : k \in 1..t }
                      \cup (IF other = "linked"
                              THEN { EpisodeRow(TmEpisode(1, k, 1), 1) : k \in 1..2 }
                              ELSE {})
      /\ user_shows = { LinkRow(1, s) }
                        \cup (IF other = "linked" THEN { LinkRow(2, s), LinkRow(2, 1) }
                              ELSE {})
      /\ user_watched =
           { WatchRow(1, ep(k)) : k \in 1..w }
             \cup (IF w < t THEN { [WatchRow(1, ep(w + 1)) EXCEPT !.watched_at = NULL] }
                   ELSE {})
             \cup (IF other = "absent" THEN {} ELSE { WatchRow(2, ep(k)) : k \in 1..t })
             \cup (IF other = "linked" THEN { WatchRow(2, 11) } ELSE {})

\* The pages are read on a library of a show of any length up to
\* MaxEpisodes with any number of its episodes ticked.
InitRead ==
  /\ AtRest
  /\ \E t \in 0..MaxEpisodes, w \in 0..MaxEpisodes, other \in Others :
       w <= t /\ LibraryOfLength(t, w, other)

\* The page in slot p is requested when nothing else is in flight.
ReadAlone(p) == nreq < MaxReads /\ \A q \in Procs : pc[q] = "idle" /\ q >= p

NextRead ==
  \E p \in Procs :
    \/ (ReadAlone(p) /\ GetShowRequest(p)) \/ GetShowOwns(p) \/ GetShowSelect(p)
    \/ GetShowEpisodes(p)
    \/ (ReadAlone(p) /\ GetHomeRequest(p)) \/ GetHomeSelect(p)
    \/ Respond(p)

SpecRead == InitRead /\ [][NextRead]_vars

\* ------------------------------------------------------------ properties
\* Rows of a table with the given id.
RowsWithId(table, id) == { r \in table : r.id = id }

\* The user has the episode's show in the library: the episode is in
\* episodes and its show is linked to the user in user_shows.
Owns(u, e) ==
  \E ep \in episodes : /\ ep.id = e
                       /\ \E l \in user_shows : l.user_id = u /\ l.show_id = ep.show_id

\* The user's watch marks on the episodes of a show.
MarksOn(uw, eps, u, s) ==
  { r \in uw : r.user_id = u /\ \E ep \in eps : ep.id = r.episode_id /\ ep.show_id = s }

Linked(us, u, s) == \E l \in us : l.user_id = u /\ l.show_id = s

\* C1: however many adds of a show run, one after the other or overlapping,
\* no show id and no episode id has two rows; an add that answered with the
\* redirect leaves exactly one row for its show and one for each episode it
\* fetched; and no add fails on a row that already exists.
AddIsIdempotent ==
  /\ \A s \in ShowIds : Cardinality(RowsWithId(shows, s)) <= 1
  /\ \A e \in EpisodeIds : Cardinality(RowsWithId(episodes, e)) <= 1
  /\ \A p \in Procs :
       kind[p] = "add" =>
         /\ response[p] # "500:SQLITE_CONSTRAINT"
         /\ response[p] = "redirect:/show" =>
              /\ Cardinality(RowsWithId(shows, show[p].id)) = 1
              /\ \A k \in 1..Len(epList[p]) :
                   Cardinality(RowsWithId(episodes, epList[p][k].id)) = 1

\* C1 witness: two adds of the same show have both answered, the second
\* having found every row in place, after TVMaze changed the show.
AddIsIdempotentWitness ==
  \E p, q \in Procs :
    /\ p # q
    /\ kind[p] = "add" /\ kind[q] = "add"
    /\ response[p] = "redirect:/show" /\ response[q] = "redirect:/show"
    /\ show[p].id = show[q].id /\ show[p].name # show[q].name
    /\ Len(epList[p]) = 2

\* C2: a toggle of an episode the user does not own answers Forbidden and
\* writes nothing.
ToggleForbiddenForNonOwner ==
  [][\A p \in Procs :
       (pc[p] = "toggle_write" /\ pc'[p] = "done" /\ ~Owns(uid[p], target[p])) =>
         (response'[p] = "403" /\ UNCHANGED tables)]_vars

\* C3: a removal that runs alone deletes the user's marks on the episodes
\* of the show and the user's link, and nothing else: shows, episodes, the
\* rows of other users and the user's rows for other shows stay.
RemoveAloneFrame ==
  [][\A p \in Procs :
       LET u == uid[p]
           s == target[p]
       IN  /\ (pc[p] = "delete_watched" /\ pc'[p] # pc[p]) =>
                /\ UNCHANGED <<shows, episodes, user_shows>>
                /\ user_watched' = user_watched \ MarksOn(user_watched, episodes, u, s)
           /\ (pc[p] = "delete_link" /\ pc'[p] # pc[p]) =>
                /\ UNCHANGED <<shows, episodes, user_watched>>
                /\ user_shows' = { l \in user_shows : l.user_id # u \/ l.show_id # s }
                /\ response'[p] = "redirect:/"
                /\ MarksOn(user_watched', episodes', u, s) = {}
                /\ ~Linked(user_shows', u, s)]_vars

\* C3 witness: a removal has answered after deleting a mark and the link,
\* and a mark of another user on an episode of the same show is in place.
RemoveAloneWitness ==
  \E p \in Procs :
    /\ kind[p] = "remove" /\ pc[p] = "done" /\ changes[p] = 2
    /\ \E r \in user_watched :
         /\ r.user_id # uid[p]
         /\ r \in MarksOn(user_watched, episodes, r.user_id, target[p])

\* C4: once a removal has ended, whatever ran between its two statements,
\* the user has no mark on an episode of the show without the link.
RemoveLeavesNoOrphan ==
  \A p \in Procs :
    (kind[p] = "remove" /\ pc[p] = "done") =>
      (MarksOn(user_watched, episodes, uid[p], target[p]) = {}
         \/ Linked(user_shows, uid[p], target[p]))

\* C5: every watch mark is on an episode of a show in its user's library.
MarksWithinLibrary == \A r \in user_watched : Owns(r.user_id, r.episode_id)

\* The rows of user_watched for one (user, episode).
MarksOf(uw, u, e) == { r \in uw : r.user_id = u /\ r.episode_id = e }

\* C6: no step of a toggle by one user creates, changes or deletes a
\* user_watched row of another user, whatever is in flight, and the state
\* a toggle that wrote leaves for its own user is the one it answers.
ToggleIsolation ==
  [][\A p \in Procs :
       (kind[p] = "toggle" /\ pc'[p] # pc[p]) =>
         /\ \A r \in user_watched \cup user_watched' :
              r.user_id # uid[p] => (r \in user_watched /\ r \in user_watched')
         /\ (pc'[p] = "done" /\ changes'[p] > 0) =>
              (Watched(user_watched', uid[p], target[p])
                 <=> response'[p] = "watched:true")]_vars

\* C6 witness: user A's toggle of an episode has unticked it while user
\* B's toggle of the same episode is in flight, and B's mark stands.
ToggleIsolationWitness ==
  \E p, q \in Procs :
    /\ kind[p] = "toggle" /\ kind[q] = "toggle"
    /\ uid[p] # uid[q] /\ target[p] = target[q]
    /\ pc[p] = "done" /\ response[p] = "watched:false"
    /\ pc[q] = "toggle_write" /\ row[q].found
    /\ Watched(user_watched, uid[q], target[q])
    /\ ~Watched(user_watched, uid[p], target[p])

\* C7: an add that ends on an upstream failure has inserted no row.
UpstreamFailureWritesNothing ==
  \A p \in Procs : (kind[p] = "add" /\ response[p] = "500:upstream") => changes[p] = 0

\* C8: for a non-empty query without a show id, no result answers 404 and
\* two or more answer the candidate list, both without a write; exactly one
\* result goes on to add that show, and the add that completes has the show
\* row in place and the user linked.
SearchDisambiguation ==
  [][\A p \in Procs :
       /\ (pc[p] = "tmSearchShows" /\ pc'[p] # pc[p] /\ response'[p] # "500:upstream") =>
            LET found == tmSearchShows(name[p], tvmaze)
            IN  /\ name[p] # <<>>
                /\ results'[p] = Len(found)
                /\ Len(found) = 0 =>
                     /\ pc'[p] = "done" /\ response'[p] = "404"
                     /\ changes'[p] = 0 /\ UNCHANGED tables
                /\ Len(found) >= 2 =>
                     /\ pc'[p] = "done" /\ response'[p] = "choose"
                     /\ changes'[p] = 0 /\ UNCHANGED tables
                /\ Len(found) = 1 =>
                     /\ pc'[p] = "insert_show" /\ show'[p] = found[1].show
       /\ (kind[p] = "add" /\ results[p] = 1 /\ pc[p] # "done" /\ pc'[p] = "done") =>
            /\ response'[p] \in {"redirect:/show", "500:upstream"}
            /\ response'[p] = "redirect:/show" =>
                 /\ RowsWithId(shows', show[p].id) # {}
                 /\ Linked(user_shows', uid[p], show[p].id)]_vars

\* C8 witness: a search with one result has added the show and linked the
\* user, and a search with two results has answered the candidate list.
SearchDisambiguationWitness ==
  \E p, q \in Procs :
    /\ kind[p] = "add" /\ results[p] = 1 /\ response[p] = "redirect:/show"
    /\ Linked(user_shows, uid[p], show[p].id)
    /\ kind[q] = "add" /\ results[q] = 2 /\ response[q] = "choose"
    /\ changes[q] = 0

\* C9: with the requests served one at a time, every toggle flips the
\* user's state of the episode (no row or a null timestamp to watched,
\* watched to a kept row with a null timestamp), answers the state it
\* stored, leaves one row for the pair, and after n toggles from unwatched
\* the episode is watched exactly when n is odd.
ToggleFlips ==
  [][\A p \in Procs :
       (pc[p] = "toggle_write" /\ pc'[p] # pc[p]) =>
         LET u == uid[p]
             e == target[p]
             after == Watched(user_watched', u, e)
         IN  /\ after = ~Watched(user_watched, u, e)
             /\ response'[p] = IF after THEN "watched:true" ELSE "watched:false"
             /\ \A r \in user_watched' :
                  Cardinality(MarksOf(user_watched', r.user_id, r.episode_id)) = 1
             /\ Cardinality(MarksOf(user_watched', u, e)) = 1
             /\ (streak'.user_id = u /\ streak'.episode_id = e /\ ~streak'.from) =>
                  (after <=> streak'.n % 2 = 1)]_vars

\* C9 witness: the owner of an episode has toggled it three times in a row
\* from unwatched, and it is watched.
ToggleFlipsWitness ==
  \E p \in Procs :
    /\ kind[p] = "toggle" /\ pc[p] = "done" /\ response[p] = "watched:true"
    /\ streak.user_id = uid[p] /\ streak.episode_id = target[p]
    /\ streak.n = 3 /\ ~streak.from
    /\ Owns(uid[p], target[p])
    /\ Watched(user_watched, uid[p], target[p])

\* C10: two toggles of one episode by one user, however their statements
\* interleave, both answer a boolean, leave one row for the pair, and the
\* stored state is the answer of the toggle that wrote last.
SameUserTogglesSafe ==
  \A p, q \in Procs :
    (/\ p # q
     /\ kind[p] = "toggle" /\ kind[q] = "toggle"
     /\ pc[p] = "done" /\ pc[q] = "done"
     /\ uid[p] = uid[q] /\ target[p] = target[q]) =>
      /\ response[p] \in {"watched:true", "watched:false"}
      /\ response[q] \in {"watched:true", "watched:false"}
      /\ Cardinality(MarksOf(user_watched, uid[p], target[p])) = 1
      /\ (streak.user_id = uid[p] /\ streak.episode_id = target[p]) =>
           (Watched(user_watched, uid[p], target[p]) <=> streak.last)

\* The add in slot p takes a step.
AddStep(p) == kind[p] = "add" /\ (pc'[p] # pc[p] \/ idx'[p] # idx[p])

\* The rows of user_shows for one (user, show).
LinksOf(us, u, s) == { l \in us : l.user_id = u /\ l.show_id = s }

\* C11: adding a show the user has linked already is no error and changes
\* nothing of the user tables: no step of an add changes user_watched or
\* drops a link, the insert of a show or episode whose id is stored leaves
\* the table as it is, the link step of a linked show leaves user_shows as
\* it is and answers the redirect, and no (user, show) has two links.
ReAddIsNoOp ==
  [][\A p \in Procs :
       AddStep(p) =>
         /\ user_watched' = user_watched
         /\ user_shows \subseteq user_shows'
         /\ (pc[p] = "insert_show" /\ RowsWithId(shows, show[p].id) # {}) =>
              (shows' = shows /\ pc'[p] = "tmEpisodes")
         /\ (pc[p] = "insert_episode"
               /\ RowsWithId(episodes, epList[p][idx[p]].id) # {}) =>
              (episodes' = episodes /\ pc'[p] # "done")
         /\ (pc[p] = "insert_link" /\ Linked(user_shows, uid[p], show[p].id)) =>
              /\ user_shows' = user_shows
              /\ response'[p] = "redirect:/show"
         /\ \A u \in Users, s \in ShowIds :
              Cardinality(LinksOf(user_shows', u, s)) <= 1]_vars

\* C11 witness: a user who has the show linked and its first episode
\* ticked has added it again; the add answered the redirect without
\* changing a row, and the link and the mark stand.
ReAddIsNoOpWitness ==
  \E p \in Procs :
    /\ kind[p] = "add" /\ response[p] = "redirect:/show" /\ changes[p] = 0
    /\ Cardinality(LinksOf(user_shows, uid[p], show[p].id)) = 1
    /\ Len(epList[p]) = 2
    /\ Watched(user_watched, uid[p], epList[p][1].id)

\* The string is empty or holds only spaces.
IsBlank(s) == \A i \in 1..Len(s) : s[i] = " "

\* C12: an add without a chosen show id whose query is empty or only
\* spaces answers 400 as its first step, before any call to TVMaze, and
\* changes no table; a blank query is the empty string after the trim.
BlankQueryIsInvalid ==
  [][/\ \A q \in Queries : IsBlank(q) => Trim(q) = <<>>
     /\ \A p \in Procs :
          (pc[p] = "idle" /\ kind'[p] = "add" /\ target'[p] = NULL
             /\ IsBlank(name'[p])) =>
            /\ pc'[p] = "done" /\ response'[p] = "400"
            /\ changes'[p] = 0 /\ results'[p] = NULL
            /\ UNCHANGED tables]_vars

\* C12 witness: an add with a blank query and no show id in the form has
\* answered 400 while a link and a mark are stored.
BlankQueryIsInvalidWitness ==
  \E p \in Procs :
    /\ kind[p] = "add" /\ pc[p] = "done" /\ response[p] = "400"
    /\ name[p] = <<>> /\ target[p] = NULL /\ changes[p] = 0
    /\ user_shows # {} /\ user_watched # {}

\* C13: a removal of a show that is not linked to the user answers
\* NotFound, not the redirect of a removal, and no step of it changes a
\* table.
RemoveUnlinkedIsNotFound ==
  [][\A p \in Procs :
       (kind[p] = "remove" /\ pc'[p] # pc[p]
          /\ ~Linked(user_shows, uid[p], target[p])) =>
         /\ UNCHANGED tables
         /\ pc'[p] = "done" => response'[p] = "404"]_vars

\* C16: an add with a chosen show id changes no watch mark and no link but
\* its own user's link to that show; when it answers the redirect the show
\* id has exactly one row, every episode of the fetched list is stored
\* under the show, and the user is linked.
AddByIdFrame ==
  [][\A p \in Procs :
       (AddStep(p) /\ target[p] # NULL) =>
         /\ user_watched' = user_watched
         /\ user_shows \subseteq user_shows'
         /\ \A l \in user_shows' \ user_shows :
              l.user_id = uid[p] /\ l.show_id = target[p]
         /\ (pc'[p] = "done" /\ response'[p] = "redirect:/show") =>
              /\ show[p].id = target[p]
              /\ Cardinality(RowsWithId(shows', target[p])) = 1
              /\ \A k \in 1..Len(epList[p]) :
                   \E r \in episodes' :
                     r.id = epList[p][k].id /\ r.show_id = target[p]
              /\ Cardinality(LinksOf(user_shows', uid[p], target[p])) = 1]_vars

\* C16 witness: an add by show id has stored the show, its two episodes
\* and the link, and the other user has no link and no mark.
AddByIdFrameWitness ==
  \E p \in Procs :
    /\ kind[p] = "add" /\ target[p] # NULL /\ response[p] = "redirect:/show"
    /\ changes[p] = 4 /\ Len(epList[p]) = 2
    /\ \A l \in user_shows : l.user_id = uid[p]
    /\ \A r \in user_watched : r.user_id = uid[p]

\* C17: no step of any request deletes a row of shows or episodes or
\* changes one of its attributes: every row stored stays as it is.
CatalogueAppendOnly == [][shows \subseteq shows' /\ episodes \subseteq episodes']_vars

\* C17 witness: a show was added again after TVMaze changed it; the add
\* has answered the redirect, and the show row and the row of the first
\* episode still hold what the first add stored.
CatalogueAppendOnlyWitness ==
  \E p \in Procs :
    /\ kind[p] = "add" /\ response[p] = "redirect:/show" /\ Len(epList[p]) = 2
    /\ \E s \in shows : s.id = show[p].id /\ s.name # show[p].name
    /\ \E e \in episodes : e.id = epList[p][1].id /\ e.title # epList[p][1].name

RECURSIVE InsertEpisodes(_, _, _, _)
\* The episodes table after the loop of addShowToUserLibrary has run from
\* position k of the list without another request in between.
InsertEpisodes(eps, list, showId, k) ==
  IF k > Len(list) THEN eps
  ELSE InsertEpisodes(InsertOrIgnore(eps, EpisodeRow(list[k], showId), EpisodePK).rows,
                      list, showId, k + 1)

\* The catalogue after one add, running alone on the catalogue start, has
\* stored the show object and the episode list it fetched.
SingleAdd(start, showObj, list) ==
  [shows |-> InsertOrIgnore(start.shows, ShowRow(showObj), ShowPK).rows,
   episodes |-> InsertEpisodes(start.episodes, list, showObj.id, 1)]

\* The catalogue two adds that are the only requests so far started on:
\* adds leave user_watched alone, so it was the empty database exactly when
\* user_watched is empty, and LibraryOfTwo otherwise.
StartOfTwoAdds ==
  IF user_watched = {} THEN [shows |-> {}, episodes |-> {}]
  ELSE [shows |-> { ShowRow(TmShow(1, 1)) },
        episodes |-> { EpisodeRow(TmEpisode(1, k, 1), 1) : k \in 1..2 }]

\* Slots p and q hold two adds of one show by two users, the only requests
\* so far, both ended and neither on an upstream failure.
TwoAddsEnded(p, q) ==
  /\ p # q /\ nreq = 2
  /\ kind[p] = "add" /\ kind[q] = "add"
  /\ pc[p] = "done" /\ pc[q] = "done"
  /\ uid[p] # uid[q]
  /\ show[p].id # NULL /\ show[p].id = show[q].id
  /\ response[p] # "500:upstream" /\ response[q] # "500:upstream"

\* C18 as stated: two adds of one show by two users, however their steps
\* and the upstream's revisions interleave, both answer the redirect, leave
\* shows and episodes as one add of the show alone would have (fetching the
\* show at some revision and the episodes at the same or a later one), and
\* leave both users linked.
OverlappingAddsConvergeAlways ==
  \A p, q \in Procs :
    TwoAddsEnded(p, q) =>
      /\ response[p] = "redirect:/show" /\ response[q] = "redirect:/show"
      /\ \E a, b \in Revisions :
           /\ a <= b
           /\ [shows |-> shows, episodes |-> episodes] =
                SingleAdd(StartOfTwoAdds, TmShow(show[p].id, a),
                          tmEpisodes(show[p].id, b))
      /\ Linked(user_shows, uid[p], show[p].id)
      /\ Linked(user_shows, uid[q], show[p].id)

\* C18 amended: when the two adds fetched the same show object and the
\* same episode list, both answer the redirect, shows and episodes are
\* those of one add of that data alone, and both users are linked.
OverlappingAddsConverge ==
  \A p, q \in Procs :
    (TwoAddsEnded(p, q) /\ show[p] = show[q] /\ epList[p] = epList[q]) =>
      /\ response[p] = "redirect:/show" /\ response[q] = "redirect:/show"
      /\ [shows |-> shows, episodes |-> episodes] =
           SingleAdd(StartOfTwoAdds, show[p], epList[p])
      /\ Linked(user_shows, uid[p], show[p].id)
      /\ Linked(user_shows, uid[q], show[p].id)

\* C18 witness: two adds of show 1 on the empty database overlapped, one
\* storing the show and the first episode, the other the second episode,
\* each its own link, on the same fetched data.
OverlappingAddsConvergeWitness ==
  \E p, q \in Procs :
    /\ TwoAddsEnded(p, q) /\ show[p] = show[q] /\ epList[p] = epList[q]
    /\ user_watched = {} /\ Len(epList[p]) = 2
    /\ changes[p] = 3 /\ changes[q] = 2

\* The show has a row and every episode of its list at some revision of
\* the upstream is stored.
Synced(sh, eps, s) ==
  /\ RowsWithId(sh, s) # {}
  /\ \E v \in Revisions :
       \A k \in 1..EpisodeCount(s, v) : RowsWithId(eps, TmEpisode(s, k, v).id) # {}

\* C19: a link is made only by the last statement of an add, when the show
\* row and every episode of the list that add fetched are stored; no other
\* step of an add, and no add that ends without the redirect, makes a
\* link; so in every state a linked show has its row and a complete
\* episode list.
LinkOnlyAfterSync ==
  /\ [](\A l \in user_shows : Synced(shows, episodes, l.show_id))
  /\ [][\A p \in Procs :
          AddStep(p) =>
            /\ pc[p] # "insert_link" => user_shows' = user_shows
            /\ (pc'[p] = "done" /\ response'[p] # "redirect:/show") =>
                 user_shows' = user_shows
            /\ user_shows' # user_shows =>
                 /\ RowsWithId(shows, show[p].id) # {}
                 /\ \A k \in 1..Len(epList[p]) :
                      RowsWithId(episodes, epList[p][k].id) # {}
                 /\ user_shows' = user_shows \cup {LinkRow(uid[p], show[p].id)}]_vars

\* C19 witness: one user's add of a show has made the link while another
\* user's add of the same show is inside its episode loop without a link.
LinkOnlyAfterSyncWitness ==
  \E p, q \in Procs :
    /\ kind[p] = "add" /\ response[p] = "redirect:/show" /\ changes[p] >= 1
    /\ kind[q] = "add" /\ pc[q] = "insert_episode" /\ show[q].id = show[p].id
    /\ Linked(user_shows, uid[p], show[p].id)
    /\ ~Linked(user_shows, uid[q], show[q].id)
    /\ Synced(shows, episodes, show[p].id)

\* C20: every row of episodes has the id of a stored show as its show_id.
EpisodesReferenceShows == \A e \in episodes : RowsWithId(shows, e.show_id) # {}

\* C20 witness: both users have removed the show, the second removal has
\* answered, no link is left, and the episodes and their show are stored.
EpisodesReferenceShowsWitness ==
  /\ episodes # {} /\ user_shows = {} /\ nreq = 2
  /\ \E p \in Procs : kind[p] = "remove" /\ pc[p] = "done" /\ changes[p] = 2
  /\ \A e \in episodes : RowsWithId(shows, e.show_id) # {}

\* C14: no step of a page changes a table; the show page of a show that
\* is not linked to the user answers 403 and renders nothing, whoever else
\* has the show, so a show page is rendered only for a linked show; and
\* the home page lists the shows linked to the user, each once, and no
\* other.
ReadsStayInLibrary ==
  [][\A p \in Procs :
       LET mine == { l.show_id : l \in { r \in user_shows : r.user_id = uid[p] } }
           listed == view'[p].shows
       IN  /\ (kind'[p] \in {"detail", "home"} /\ pc'[p] # pc[p]) => UNCHANGED tables
           /\ (pc[p] = "select_owns" /\ pc'[p] # pc[p] /\ target[p] \notin mine) =>
                (pc'[p] = "done" /\ response'[p] = "403" /\ view'[p] = NoView)
           /\ (pc'[p] = "done" /\ response'[p] = "200:show") =>
                (target[p] \in mine /\ view'[p].show.id = target[p])
           /\ (pc[p] = "select_library" /\ pc'[p] # pc[p]) =>
                /\ response'[p] = "200:index"
                /\ { listed[i].id : i \in 1..Len(listed) } = mine
                /\ Len(listed) = Cardinality(mine)]_vars

\* C14 witness: user 2 has asked for the page of a show that user 1 has
\* added and that is stored with its episodes, and was answered 403.
ReadsStayInLibraryWitness ==
  \E p \in Procs :
    /\ kind[p] = "detail" /\ response[p] = "403" /\ uid[p] = 2
    /\ RowsWithId(shows, target[p]) # {}
    /\ Cardinality(EpisodesOf(episodes, target[p])) >= 2
    /\ Linked(user_shows, 1, target[p])
    /\ ~Linked(user_shows, 2, target[p])

\* n / d rounded to an integer, a half rounding up and a half rounding to
\* the even neighbour.
RoundHalfUp(n, d) == (2 * n + d) \div (2 * d)
RoundHalfEven(n, d) ==
  IF 2 * (n % d) = d THEN (n \div d) + ((n \div d) % 2) ELSE RoundHalfUp(n, d)

\* C15: the show page reports as total the number of episodes of the show,
\* as watched the number of them with a non-null timestamp of the user, and
\* as percent watched / total * 100 rounded, a half rounded up or to even,
\* and 0 for a show without episodes; so watched is at most total and the
\* percent at most 100.
ShowPageCounts ==
  \A p \in Procs :
    (kind[p] = "detail" /\ response[p] = "200:show") =>
      LET eps == EpisodesOf(episodes, target[p])
          total == Cardinality(eps)
          watched == Cardinality({ e \in eps : Watched(user_watched, uid[p], e) })
      IN  /\ view[p].total = total
          /\ view[p].watched = watched
          /\ 0 <= view[p].watched /\ view[p].watched <= view[p].total
          /\ 0 <= view[p].pct /\ view[p].pct <= 100
          /\ total = 0 => view[p].pct = 0
          /\ total > 0 => view[p].pct \in { RoundHalfUp(100 * watched, total),
                                            RoundHalfEven(100 * watched, total) }

\* C21 as stated: the episode list of the show page is ordered by season
\* and, within a season, by number, both ascending, and an episode
\* without a season or without a number stands after every numbered one.
EpisodesOrderedNullsLast ==
  \A p \in Procs :
    (kind[p] = "detail" /\ response[p] = "200:show") =>
      \A i, j \in 1..Len(view[p].episodes) :
        i < j =>
          LET a == view[p].episodes[i]
              b == view[p].episodes[j]
              numbered(e) == e.season # NULL /\ e.number # NULL
          IN  /\ numbered(b) => numbered(a)
              /\ numbered(a) /\ numbered(b) =>
                   \/ a.season < b.season
                   \/ a.season = b.season /\ a.number <= b.number

\* C21: the episode list of the show page is ordered by season and, within
\* a season, by number, both ascending, the episodes without a season
\* standing before every season and the episodes of a season without a
\* number before its numbered ones.
EpisodesOrderedNullsFirst ==
  \A p \in Procs :
    (kind[p] = "detail" /\ response[p] = "200:show") =>
      \A i, j \in 1..Len(view[p].episodes) :
        i < j =>
          LET a == view[p].episodes[i]
              b == view[p].episodes[j]
              first(x, y) == x = NULL \/ (y # NULL /\ x <= y)
          IN  /\ first(a.season, b.season)
              /\ a.season = b.season => first(a.number, b.number)

\* A show page lists episodes of several seasons, one of them without a
\* season and one without a number.
EpisodesOrderedNullsFirstWitness ==
  \E p \in Procs :
    /\ kind[p] = "detail" /\ response[p] = "200:show"
    /\ \E i, j, k, l \in 1..Len(view[p].episodes) :
         /\ view[p].episodes[i].season = NULL
         /\ view[p].episodes[j].season # NULL /\ view[p].episodes[j].number = NULL
         /\ view[p].episodes[k].season # NULL /\ view[p].episodes[k].number # NULL
         /\ view[p].episodes[l].season # NULL /\ view[p].episodes[l].number # NULL
         /\ view[p].episodes[k].season < view[p].episodes[l].season

\* C22: for every show of a user's library the home page reports the total
\* and the watched count that the show page of that user and show reports,
\* with watched at most total; the watched count is the number of episodes
\* of the show with a mark of that user with a timestamp, so that marks of
\* other users and marks with a null timestamp are not counted.
LibraryAgreesWithShowPage ==
  \A p \in Procs :
    /\ (kind[p] = "home" /\ response[p] = "200:index") =>
         /\ { view[p].shows[i].id : i \in 1..Len(view[p].shows) }
              = { s.id : s \in { r \in shows : Linked(user_shows, uid[p], r.id) } }
         /\ \A i \in 1..Len(view[p].shows) :
              LET r == view[p].shows[i]
                  rows == SelectEpisodes(episodes, user_watched, uid[p], r.id)
              IN  /\ SelectOwns(user_shows, uid[p], r.id)
                  /\ r.total_eps = Len(rows)
                  /\ r.watched_eps = Cardinality({ k \in 1..Len(rows) : rows[k].watched })
                  /\ r.watched_eps <= r.total_eps
                  /\ r.watched_eps =
                       Cardinality({ e \in episodes :
                                       /\ e.show_id = r.id
                                       /\ \E m \in user_watched :
                                            /\ m.user_id = uid[p]
                                            /\ m.episode_id = e.id
                                            /\ m.watched_at # NULL })
    /\ (kind[p] = "detail" /\ response[p] = "200:show") =>
         LET lib == SelectLibrary(shows, episodes, user_shows, user_watched, uid[p])
         IN  \E i \in 1..Len(lib) :
               /\ lib[i].id = target[p]
               /\ lib[i].total_eps = view[p].total
               /\ lib[i].watched_eps = view[p].watched

\* The home page of user 1 lists a show with some but not all episodes
\* watched, on which user 1 has a mark with a null timestamp and user 2 a
\* mark with a timestamp on an episode that user 1 has not watched.
LibraryAgreesWithShowPageWitness ==
  \E p \in Procs :
    /\ kind[p] = "home" /\ response[p] = "200:index" /\ uid[p] = 1
    /\ \E i \in 1..Len(view[p].shows) :
         LET r == view[p].shows[i]
         IN  /\ 0 < r.watched_eps /\ r.watched_eps < r.total_eps
             /\ \E e \in episodes, m, n \in user_watched :
                  /\ e.show_id = r.id
                  /\ m.user_id = 1 /\ m.episode_id = e.id /\ m.watched_at = NULL
                  /\ n.user_id = 2 /\ n.episode_id = e.id /\ n.watched_at # NULL

====
